---------------------------- MODULE Spec2Model ----------------------------
(***************************************************************************)
(* Model of the Todo-AI request pipeline: TodoAnalyzer.analyze_input       *)
(* (src/app/llm_processor.py), find_matching_todo, process_input,          *)
(* get_todos_response and get_filtered_todos (src/app/main.py) over the    *)
(* todos table of src/app/models.py.                                       *)
(*                                                                         *)
(* Strings are sequences of one-character strings, so that lower(),        *)
(* split(), replace(), capitalize(), the SQL LIKE match and the regular    *)
(* expressions of the source are computed character by character.          *)
(***************************************************************************)
EXTENDS Integers, Sequences, FiniteSets, TLC

VARIABLES
    todos,      \* the todos table: sequence of rows in ascending id order
    pre,        \* the todos table as it was before the request in hand
    req,        \* the POST /process request in hand, NoRequest between requests
    resp,       \* the response to the last request
    view,       \* the response to a GET /todos that followed the last request
    a_in,       \* analyze_input: the call's inputs (utterance, oracle outcome, clock)
    a_out,      \* analyze_input: the value returned
    m_in,       \* find_matching_todo: the call's inputs (title, user_id)
    m_out,      \* find_matching_todo: the row returned, or None
    solo        \* per user, the todos table of a run of that user's requests alone

vars == <<todos, pre, req, resp, view, a_in, a_out, m_in, m_out, solo>>

\* An optional value (Python None, SQL NULL, JSON null) is a set of at most one
\* element: None is {}, a value v is {v}.  A key a dict does not have is a field
\* the record does not have.
None == {}
Some(v) == {v}
TheOne(o) == CHOOSE v \in o : TRUE
Has(d, k) == k \in DOMAIN d

---------------------------------------------------------------------------
(* Character and string primitives (Python str methods, re, SQL lower())   *)

UpperChars == <<"A", "B", "C", "D", "E", "F", "G", "H", "I", "J", "K", "L", "M", "N", "O", "P", "Q", "R", "S", "T", "U", "V", "W", "X", "Y", "Z">>
LowerChars == <<"a", "b", "c", "d", "e", "f", "g", "h", "i", "j", "k", "l", "m", "n", "o", "p", "q", "r", "s", "t", "u", "v", "w", "x", "y", "z">>
Digits == <<"0", "1", "2", "3", "4", "5", "6", "7", "8", "9">>

InSeq(c, s) == \E i \in 1..Len(s) : s[i] = c
IndexOf(c, s) == CHOOSE i \in 1..Len(s) : s[i] = c

\* str.lower() / str.upper() on one character
LowerChar(c) == IF InSeq(c, UpperChars) THEN LowerChars[IndexOf(c, UpperChars)] ELSE c
UpperChar(c) == IF InSeq(c, LowerChars) THEN UpperChars[IndexOf(c, LowerChars)] ELSE c

\* str.lower()
Lower(s) == [i \in 1..Len(s) |-> LowerChar(s[i])]

\* whitespace as seen by str.split(), str.strip() and the regex class \s
IsSpace(c) == c = " "
\* the regex class \w
IsWordChar(c) == InSeq(c, UpperChars) \/ InSeq(c, LowerChars) \/ InSeq(c, Digits) \/ c = "_"
IsDigit(c) == InSeq(c, Digits)

RECURSIVE LStrip(_)
LStrip(s) == IF s # <<>> /\ IsSpace(s[1]) THEN LStrip(Tail(s)) ELSE s
RECURSIVE RStrip(_)
RStrip(s) == IF s # <<>> /\ IsSpace(s[Len(s)]) THEN RStrip(SubSeq(s, 1, Len(s) - 1)) ELSE s
\* str.strip()
Strip(s) == RStrip(LStrip(s))

\* str.capitalize(): first character upper-cased, the rest lower-cased
Capitalize(s) == [i \in 1..Len(s) |-> IF i = 1 THEN UpperChar(s[i]) ELSE LowerChar(s[i])]

\* the Python test  w in s  on strings
Contains(s, w) == \E i \in 0..(Len(s) - Len(w)) : SubSeq(s, i + 1, i + Len(w)) = w

\* str.split() with no argument: the maximal runs of non-whitespace
RECURSIVE SplitFrom(_, _, _)
SplitFrom(s, i, cur) ==
    IF i > Len(s) THEN (IF cur = <<>> THEN <<>> ELSE <<cur>>)
    ELSE IF IsSpace(s[i])
         THEN (IF cur = <<>> THEN <<>> ELSE <<cur>>) \o SplitFrom(s, i + 1, <<>>)
         ELSE SplitFrom(s, i + 1, Append(cur, s[i]))
Split(s) == SplitFrom(s, 1, <<>>)

\* str.split(","): every piece between commas, empty pieces kept
RECURSIVE SplitCommaFrom(_, _, _)
SplitCommaFrom(s, i, cur) ==
    IF i > Len(s) THEN <<cur>>
    ELSE IF s[i] = ","
         THEN <<cur>> \o SplitCommaFrom(s, i + 1, <<>>)
         ELSE SplitCommaFrom(s, i + 1, Append(cur, s[i]))
SplitComma(s) == SplitCommaFrom(s, 1, <<>>)

\* " ".join(words)
RECURSIVE JoinSpace(_)
JoinSpace(ws) ==
    IF ws = <<>> THEN <<>>
    ELSE IF Len(ws) = 1 THEN ws[1]
    ELSE ws[1] \o <<" ">> \o JoinSpace(Tail(ws))

\* str.replace(w, ""): every non-overlapping occurrence of w removed, left to right
RECURSIVE Replace(_, _)
Replace(s, w) ==
    IF Len(s) < Len(w) \/ s = <<>> THEN s
    ELSE IF SubSeq(s, 1, Len(w)) = w
         THEN Replace(SubSeq(s, Len(w) + 1, Len(s)), w)
         ELSE <<s[1]>> \o Replace(Tail(s), w)

\* re.sub(r'\b' + w + r'\b', '', s) for a word w that starts and ends with a \w character
RECURSIVE SubWordFrom(_, _, _)
SubWordFrom(s, w, i) ==
    IF i > Len(s) THEN <<>>
    ELSE IF /\ i + Len(w) - 1 <= Len(s)
            /\ SubSeq(s, i, i + Len(w) - 1) = w
            /\ (i = 1 \/ ~IsWordChar(s[i - 1]))
            /\ (i + Len(w) > Len(s) \/ ~IsWordChar(s[i + Len(w)]))
         THEN SubWordFrom(s, w, i + Len(w))
         ELSE <<s[i]>> \o SubWordFrom(s, w, i + 1)
SubWord(s, w) == SubWordFrom(s, w, 1)

\* re.sub(r'\s+', ' ', s)
RECURSIVE CollapseSpaces(_)
CollapseSpaces(s) ==
    IF s = <<>> THEN <<>>
    ELSE IF IsSpace(s[1])
         THEN <<" ">> \o CollapseSpaces(LStrip(s))
         ELSE <<s[1]>> \o CollapseSpaces(Tail(s))

\* re.sub(r'^\W+|\W+$', '', s)
RECURSIVE LStripNonWord(_)
LStripNonWord(s) == IF s # <<>> /\ ~IsWordChar(s[1]) THEN LStripNonWord(Tail(s)) ELSE s
RECURSIVE RStripNonWord(_)
RStripNonWord(s) ==
    IF s # <<>> /\ ~IsWordChar(s[Len(s)]) THEN RStripNonWord(SubSeq(s, 1, Len(s) - 1)) ELSE s
StripNonWord(s) == RStripNonWord(LStripNonWord(s))

\* SQL  s LIKE p : % matches any run of characters, _ any one character
RECURSIVE Like(_, _)
Like(s, p) ==
    IF p = <<>> THEN s = <<>>
    ELSE IF p[1] = "%" THEN Like(s, Tail(p)) \/ (s # <<>> /\ Like(Tail(s), p))
    ELSE IF p[1] = "_" THEN s # <<>> /\ Like(Tail(s), Tail(p))
    ELSE s # <<>> /\ s[1] = p[1] /\ Like(Tail(s), Tail(p))

\* column.ilike(p), rendered  lower(column) LIKE lower(p)
ILike(s, p) == Like(Lower(s), Lower(p))

---------------------------------------------------------------------------
(* The tables of src/app/models.py                                          *)

\* users.id of the two accounts; user 1 has is_admin set
Users == {1, 2}
is_admin(u) == u = 1

\* Todo(...): the row an INSERT of a new Todo object stores.  updated_at takes
\* its column default, the clock at the INSERT; completed is passed as False and
\* category_id is not passed.  created_at, which no handler reads or assigns, is
\* not carried.
Todo(id, title, description, user_id, priority, due_date, now) ==
    [id |-> id, title |-> title, description |-> description,
     updated_at |-> now, due_date |-> due_date,
     completed |-> FALSE, priority |-> priority, category_id |-> None,
     user_id |-> user_id]

\* the id SQLite gives the next row of an INTEGER PRIMARY KEY table
NextId(rows) == IF rows = <<>> THEN 1 ELSE rows[Len(rows)].id + 1

\* Query.first(): the first row of the result, or None
First(rows) == IF rows = <<>> THEN None ELSE Some(rows[1])

---------------------------------------------------------------------------
(* find_matching_todo                                                       *)

\* "Try exact match first": title ILIKE %title% AND user_id = user_id, .first()
MatchStage1(rows, title, user_id) ==
    LET Hit(t) == ILike(t.title, <<"%">> \o title \o <<"%">>) /\ t.user_id = user_id
    IN  First(SelectSeq(rows, Hit))

\* "Try partial match": the first row of the user whose lower-cased title
\* contains one of the words of title.lower().split()
MatchStage2(rows, title, user_id) ==
    LET title_words == Split(Lower(title))
        Own(t) == t.user_id = user_id
        Hit(t) == \E i \in 1..Len(title_words) : Contains(Lower(t.title), title_words[i])
    IN  First(SelectSeq(SelectSeq(rows, Own), Hit))

find_matching_todo(rows, title, user_id) ==
    LET todo == MatchStage1(rows, title, user_id)
    IN  IF todo = None THEN MatchStage2(rows, title, user_id) ELSE todo

---------------------------------------------------------------------------
(* TodoAnalyzer.analyze_input                                               *)

\* A due_date string is a record [fmt, t]: fmt "sql" is "%Y-%m-%d %H:%M:%S",
\* "iso" is "YYYY-MM-DDTHH:MM:SS", "date" is "YYYY-MM-DD", "empty" is "" and
\* "junk" is any other text; t is the instant it writes, in hours.
DateStr(fmt, t) == [fmt |-> fmt, t |-> t]
\* a description string: its text and, where analyze_input appended
\* " (Due in N hours)", N
Descr(text, hours) == [text |-> text, hours |-> hours]

\* action_words of basic_cleanup, in the order the loop removes them
action_words ==
    <<
       <<"a", "d", "d">>, <<"c", "r", "e", "a", "t", "e">>,
       <<"d", "e", "l", "e", "t", "e">>, <<"r", "e", "m", "o", "v", "e">>,
       <<"u", "p", "d", "a", "t", "e">>, <<"c", "h", "a", "n", "g", "e">>,
       <<"c", "o", "m", "p", "l", "e", "t", "e">>, <<"f", "i", "n", "i", "s", "h">>,
       <<"d", "o", "n", "e">>, <<"n", "e", "e", "d", " ", "t", "o">>,
       <<"h", "a", "v", "e", " ", "t", "o">>, <<"m", "u", "s", "t">>,
       <<"s", "h", "o", "u", "l", "d">>, <<"w", "a", "n", "t", " ", "t", "o">>,
       <<"g", "o", "i", "n", "g", " ", "t", "o">>, <<"t", "a", "s", "k">>,
       <<"t", "o", "d", "o">>
    >>

RECURSIVE StripWords(_, _)
StripWords(text, words) ==
    IF words = <<>> THEN text
    ELSE StripWords(SubWord(text, words[1]), Tail(words))

basic_cleanup(text) ==
    StripNonWord(Strip(CollapseSpaces(StripWords(Lower(text), action_words))))

\* any(word in s for word in words)
ContainsAny(s, words) == \E i \in 1..Len(words) : Contains(s, words[i])

delete_words == <<<<"d", "e", "l", "e", "t", "e">>, <<"r", "e", "m", "o", "v", "e">>, <<"c", "a", "n", "c", "e", "l">>>>
complete_words == <<<<"d", "o", "n", "e">>, <<"c", "o", "m", "p", "l", "e", "t", "e">>, <<"f", "i", "n", "i", "s", "h", "e", "d">>>>

\* a slip: the completion words are tested before the deletion words
action_word_complete_first(user_input) ==
    IF ContainsAny(Lower(user_input), complete_words) THEN "mark_complete"
    ELSE IF ContainsAny(Lower(user_input), delete_words) THEN "delete"
    ELSE "create"
\* "Simple action detection" of the fallback
action_word(user_input) ==
    IF ContainsAny(Lower(user_input), delete_words) THEN "delete"
    ELSE IF ContainsAny(Lower(user_input), complete_words) THEN "mark_complete"
    ELSE "create"

\* the two error dicts analyze_input returns
ErrUnderstand ==
    [action |-> "error",
     error |-> "Failed to understand the request. Please try again.",
     details |-> "JSONDecodeError"]
ErrOccurred ==
    [action |-> "error",
     error |-> "An error occurred while processing your request. Please try again.",
     details |-> "Exception"]

\* the except json.JSONDecodeError branch
fallback_extraction(user_input) ==
    LET task_name == Capitalize(Strip(basic_cleanup(Lower(user_input))))
        act == action_word(user_input)
    IN  IF task_name # <<>>
        THEN [action |-> act,
              ui_action |-> IF act = "create" THEN "add_item" ELSE "update_item",
              todos |-> <<[title |-> task_name, description |-> None,
                           due_date |-> None, priority |-> 1, category |-> None]>>]
        ELSE ErrUnderstand

\* " ".join(word.capitalize() for word in title.split())
TitleCase(title) ==
    LET ws == Split(title)
    IN  JoinSpace([i \in 1..Len(ws) |-> Capitalize(ws[i])])

\* int(digits)
RECURSIVE ToInt(_)
ToInt(ds) ==
    IF ds = <<>> THEN 0
    ELSE 10 * ToInt(SubSeq(ds, 1, Len(ds) - 1)) + (IndexOf(ds[Len(ds)], Digits) - 1)

RECURSIVE DigitRunEnd(_, _)
DigitRunEnd(s, i) == IF i < Len(s) /\ IsDigit(s[i + 1]) THEN DigitRunEnd(s, i + 1) ELSE i
RECURSIVE SkipSpaces(_, _)
SkipSpaces(s, k) == IF k <= Len(s) /\ IsSpace(s[k]) THEN SkipSpaces(s, k + 1) ELSE k
StartsAt(s, k, w) == k + Len(w) - 1 <= Len(s) /\ SubSeq(s, k, k + Len(w) - 1) = w

\* re.search(r'(\d+)\s*(hr|hour|hrs|hours)', s): group(1) as an int, or None
time_match(s) ==
    LET Hit(i) == /\ IsDigit(s[i])
                  /\ LET k == SkipSpaces(s, DigitRunEnd(s, i) + 1)
                     IN  StartsAt(s, k, <<"h", "r">>) \/ StartsAt(s, k, <<"h", "o", "u", "r">>)
        hits == {i \in 1..Len(s) : Hit(i)}
    IN  IF hits = {} THEN None
        ELSE LET i == CHOOSE j \in hits : \A h \in hits : j <= h
             IN  Some(ToInt(SubSeq(s, i, DigitRunEnd(s, i))))

\* todo_items of the create branch
todo_items(user_input) ==
    IF InSeq(",", user_input)
    THEN LET parts == SplitComma(user_input) IN [i \in 1..Len(parts) |-> Strip(parts[i])]
    ELSE <<user_input>>

\* one pass of the loop over todo_items: the todo dict built for item
create_todo(todo_data, item, now) ==
    LET title == TitleCase(IF Has(todo_data, "title") THEN todo_data.title ELSE Strip(item))
        hours == time_match(Lower(item))
    IN  [title |-> title,
         description |-> IF hours # None
                         THEN Some(Descr(Capitalize(title), hours))
                         ELSE IF Has(todo_data, "description") THEN todo_data.description
                         ELSE Some(Descr(title, None)),
         due_date |-> IF hours # None THEN Some(DateStr("sql", now + TheOne(hours)))
                      ELSE IF Has(todo_data, "due_date") THEN todo_data.due_date
                      ELSE None,
         priority |-> IF Has(todo_data, "priority") THEN todo_data.priority ELSE 1,
         category |-> IF Has(todo_data, "category") THEN todo_data.category ELSE None]

\* the try block after json.loads succeeded with a JSON object
postprocess(obj, user_input, now) ==
    LET parsed == IF Has(obj, "todos") THEN obj ELSE obj @@ [todos |-> <<>>]
    IN  IF Has(parsed, "action") /\ parsed.action = "create"
        THEN IF parsed.todos = <<>>
             THEN ErrOccurred     \* parsed.get("todos", [{}])[0] raises IndexError
             ELSE LET items == todo_items(user_input)
                      made == [i \in 1..Len(items) |-> create_todo(parsed.todos[1], items[i], now)]
                      out == [parsed EXCEPT !.todos = made]
                  IN  IF Has(out, "ui_action") THEN out ELSE out @@ [ui_action |-> "add_item"]
        ELSE parsed

\* The oracle's outcome is [kind |-> "fail"] (the call raises), [kind |-> "text"]
\* (content that json.loads rejects), [kind |-> "nonobject"] (JSON that is not
\* an object) or [kind |-> "object", obj |-> the object].
analyze_input(user_input, oracle, now) ==
    CASE oracle.kind = "fail" -> ErrOccurred
      [] oracle.kind = "text" -> fallback_extraction(user_input)
      [] oracle.kind = "nonobject" -> ErrOccurred
      [] oracle.kind = "object" -> postprocess(oracle.obj, user_input, now)

---------------------------------------------------------------------------
(* Responses                                                                *)

\* a message: its fixed text and the title or count formatted into it
Msg(text, title, count) == [text |-> text, title |-> title, count |-> count]
\* a dict returned by a handler: {"todos": [...], "message"?: ..., "error"?: ...}
Result(list, message, error) ==
    [kind |-> "result", todos |-> list, message |-> message, error |-> error]
\* raise HTTPException(status_code, detail)
HTTPException(status_code, detail) ==
    [kind |-> "http", status_code |-> status_code, detail |-> detail]
\* an exception no handler catches: the request ends as an internal server error
Fault(exc) == [kind |-> "fault", exc |-> exc]

\* datetime.isoformat()
isoformat(t) == DateStr("iso", t)

\* the dict get_filtered_todos builds for one row; no row of the model has a
\* category_id, so todo.category is None
todo_dict(t) ==
    [id |-> t.id, title |-> t.title, description |-> t.description,
     completed |-> t.completed, priority |-> t.priority,
     due_date |-> IF t.due_date = None THEN None ELSE Some(isoformat(TheOne(t.due_date))),
     category |-> None]

\* a slip: the user filter is left out
visible_rows_unfiltered(rows, current_user) == rows
\* the rows get_filtered_todos reads: all rows for an admin, else the user's own
visible_rows(rows, current_user) ==
    LET Own(t) == t.user_id = current_user
    IN  IF is_admin(current_user) THEN rows ELSE SelectSeq(rows, Own)

\* get_filtered_todos: filters and view_options are not read before the return
get_filtered_todos(rows, filters, view_options, current_user) ==
    LET vis == visible_rows(rows, current_user)
    IN  Result([i \in 1..Len(vis) |-> todo_dict(vis[i])], None, None)

\* a slip: the helper lists the caller's own rows whoever the caller is
get_todos_response_own(rows, message, current_user) ==
    LET Own(t) == t.user_id = current_user
        own == SelectSeq(rows, Own)
    IN  Result([i \in 1..Len(own) |-> todo_dict(own[i])], Some(message), None)
get_todos_response(rows, message, current_user) ==
    [get_filtered_todos(rows, None, None, current_user) EXCEPT !.message = Some(message)]

---------------------------------------------------------------------------
(* process_input                                                            *)

\* what a request leaves behind: the committed table and the response
Outcome(rows, response) == [db |-> rows, resp |-> response]

\* the row as the UPDATE of a changed object leaves it: updated_at takes its
\* onupdate value; an object with no net change is not written
Updated(old, new, now) == IF new = old THEN old ELSE [new EXCEPT !.updated_at = now]

\* rows with the row of id `id` replaced by t
ReplaceRow(rows, t) == [i \in 1..Len(rows) |-> IF rows[i].id = t.id THEN t ELSE rows[i]]
\* a slip: the DELETE is keyed on the title, not on the primary key
DeleteRowByTitle(rows, t) == LET Keep(r) == r.title # t.title IN SelectSeq(rows, Keep)
\* db.delete(todo): rows without the row of todo's id
DeleteRow(rows, t) == LET Keep(r) == r.id # t.id IN SelectSeq(rows, Keep)

\* a JSON value Python treats as true where the code tests a due_date
Truthy(due) == due # None /\ TheOne(due).fmt # "empty"

\* datetime.strptime(s, "%Y-%m-%d %H:%M:%S"): the instant, or None for ValueError
strptime(s) == IF s.fmt = "sql" THEN Some(s.t) ELSE None
\* datetime.fromisoformat(s): the instant, or None for ValueError
fromisoformat(s) == IF s.fmt \in {"sql", "iso", "date"} THEN Some(s.t) ELSE None

\* todos_to_create of the create branch; None when building it raises KeyError
todos_to_create(analysis, user_input) ==
    LET given == IF Has(analysis, "todos") THEN analysis.todos ELSE <<>>
    IN  IF given = <<>> /\ Has(analysis, "todo_info")
        THEN LET ti == analysis.todo_info
             IN  IF {"title", "description", "due_date", "priority"} \subseteq DOMAIN ti
                 THEN Some(<<[title |-> ti.title, description |-> ti.description,
                              due_date |-> ti.due_date, priority |-> ti.priority]>>)
                 ELSE None
        ELSE IF given = <<>>
        THEN Some(<<[title |-> user_input, description |-> Some(Descr(user_input, None)),
                     due_date |-> None, priority |-> 1]>>)
        ELSE Some(given)

\* whether one pass of the "Create all todos" loop runs without raising
CanAdd(todo_info) ==
    /\ Has(todo_info, "title")
    /\ (Has(todo_info, "due_date") /\ Truthy(todo_info.due_date))
          => strptime(TheOne(todo_info.due_date)) # None

\* a slip: the draft's priority is not passed on
NewTodoDefaultPriority(todo_info, id, user_id, now) ==
    Todo(id, todo_info.title,
         IF Has(todo_info, "description") THEN todo_info.description ELSE None,
         user_id, 1,
         IF Has(todo_info, "due_date") /\ Truthy(todo_info.due_date)
         THEN strptime(TheOne(todo_info.due_date)) ELSE None,
         now)
\* the Todo object one pass of the loop adds to the session
NewTodo(todo_info, id, user_id, now) ==
    Todo(id, todo_info.title,
         IF Has(todo_info, "description") THEN todo_info.description ELSE None,
         user_id,
         IF Has(todo_info, "priority") THEN todo_info.priority ELSE 1,
         IF Has(todo_info, "due_date") /\ Truthy(todo_info.due_date)
         THEN strptime(TheOne(todo_info.due_date)) ELSE None,
         now)

CreateFailed == Result(<<>>, None, Some("Failed to create todo. Please try again."))

\* db.commit() raised and no handler caught it: the session is closed with its
\* changes unwritten and the exception leaves the handler
CommitFailed == Fault("OperationalError")

\* the create branch: every draft is added and committed, or any exception
\* rolls the session back.  commit_ok tells whether the store accepts the
\* commit of this request.
create_todos(rows, analysis, user_input, current_user, now, commit_ok) ==
    LET drafts == todos_to_create(analysis, user_input)
    IN  IF drafts = None THEN Outcome(rows, CreateFailed)
        ELSE LET ds == TheOne(drafts)
             IN  IF \E i \in 1..Len(ds) : ~CanAdd(ds[i])
                 THEN Outcome(rows, CreateFailed)
                 ELSE IF ~commit_ok
                 THEN Outcome(rows, CreateFailed)      \* db.commit() raises: db.rollback()
                 ELSE LET db == rows \o [i \in 1..Len(ds) |->
                                  NewTodo(ds[i], NextId(rows) + i - 1, current_user, now)]
                      IN  Outcome(db,
                              [get_filtered_todos(db, None, None, current_user) EXCEPT
                                  !.message = Some(Msg("Created {count} todo(s) successfully",
                                                       <<>>, Len(ds)))])

RECURSIVE ReplaceEach(_, _)
ReplaceEach(text, words) ==
    IF words = <<>> THEN text ELSE ReplaceEach(Replace(text, words[1]), Tail(words))

completion_words_to_remove ==
    <<<<"m", "a", "r", "k">>, <<"a", "s">>, <<"c", "o", "m", "p", "l", "e", "t", "e">>, <<"c", "o", "m", "p", "l", "e", "t", "e", "d">>,
      <<"i", "n", "c", "o", "m", "p", "l", "e", "t", "e">>, <<"d", "o", "n", "e">>, <<"t", "o", "d", "o">>, <<"t", "a", "s", "k">>>>
deletion_words_to_remove ==
    <<<<"d", "e", "l", "e", "t", "e">>, <<"r", "e", "m", "o", "v", "e">>, <<"t", "o", "d", "o">>, <<"t", "a", "s", "k">>>>

\* todo_title of the completion and deletion branches; None when reading it
\* raises KeyError
todo_title(analysis, user_input, words_to_remove) ==
    LET given == IF Has(analysis, "todos") THEN analysis.todos ELSE <<>>
    IN  IF given = <<>>
        THEN IF Has(analysis, "todo_info")
             THEN IF Has(analysis.todo_info, "title") THEN Some(analysis.todo_info.title)
                  ELSE None
             ELSE Some(Capitalize(Strip(ReplaceEach(Lower(user_input), words_to_remove))))
        ELSE IF Has(given[1], "title") THEN Some(given[1].title) ELSE None

NotFound(title) == HTTPException(404, Msg("Todo not found: {todo_title}", title, 0))

\* a slip: the flag is set whatever the action
completed_flag_always(action) == TRUE
\* the value assigned to todo.completed
completed_flag(action) == action = "mark_complete"

\* the mark_complete / mark_incomplete branch
mark_todo(rows, analysis, user_input, current_user, now, commit_ok) ==
    LET title == todo_title(analysis, user_input, completion_words_to_remove)
    IN  IF title = None THEN Outcome(rows, Fault("KeyError"))
        ELSE LET todo == find_matching_todo(rows, TheOne(title), current_user)
             IN  IF todo = None THEN Outcome(rows, NotFound(TheOne(title)))
                 ELSE IF ~commit_ok THEN Outcome(rows, CommitFailed)
                 ELSE LET t == TheOne(todo)
                          db == ReplaceRow(rows, Updated(t,
                                  [t EXCEPT !.completed = completed_flag(analysis.action)], now))
                      IN  Outcome(db, get_todos_response(db,
                              Msg(IF analysis.action = "mark_complete"
                                  THEN "Todo marked as complete"
                                  ELSE "Todo marked as incomplete", <<>>, 0),
                              current_user))

\* the delete branch
delete_todo(rows, analysis, user_input, current_user, commit_ok) ==
    LET title == todo_title(analysis, user_input, deletion_words_to_remove)
    IN  IF title = None THEN Outcome(rows, Fault("KeyError"))
        ELSE LET todo == find_matching_todo(rows, TheOne(title), current_user)
             IN  IF todo = None THEN Outcome(rows, NotFound(TheOne(title)))
                 ELSE IF ~commit_ok THEN Outcome(rows, CommitFailed)
                 ELSE LET db == DeleteRow(rows, TheOne(todo))
                      IN  Outcome(db, get_todos_response(db,
                              Msg("Todo deleted successfully", <<>>, 0), current_user))

\* the first update branch: the field patch from analysis["todo_info"]
update_todo(rows, analysis, current_user, now, commit_ok) ==
    IF ~Has(analysis, "todo_info") \/ ~Has(analysis.todo_info, "title")
    THEN Outcome(rows, Fault("KeyError"))
    ELSE LET todo_info == analysis.todo_info
             Same(t) == t.title = todo_info.title
             todo == First(SelectSeq(rows, Same))
             Given(key) == Has(todo_info, key) /\ todo_info[key] # None
         IN  IF todo = None
             THEN Outcome(rows, HTTPException(404, Msg("Todo not found", <<>>, 0)))
             ELSE IF Given("category")
             THEN Outcome(rows, Fault("AttributeError"))   \* a str set on a relationship
             ELSE IF Given("due_date") /\ Truthy(todo_info.due_date)
                     /\ fromisoformat(TheOne(todo_info.due_date)) = None
             THEN Outcome(rows, Fault("ValueError"))
             ELSE IF Given("due_date") /\ ~Truthy(todo_info.due_date)
             THEN Outcome(rows, Fault("StatementError"))   \* "" bound to a DateTime column
             ELSE IF ~commit_ok THEN Outcome(rows, CommitFailed)
             ELSE LET t == TheOne(todo)
                      new == [t EXCEPT
                          !.title = todo_info.title,
                          !.description = IF Given("description") THEN todo_info.description ELSE @,
                          !.due_date = IF Given("due_date")
                                       THEN fromisoformat(TheOne(todo_info.due_date)) ELSE @,
                          !.priority = IF Has(todo_info, "priority") THEN todo_info.priority ELSE @,
                          !.completed = IF Has(todo_info, "completed") THEN todo_info.completed ELSE @,
                          !.user_id = IF Has(todo_info, "user_id") THEN todo_info.user_id ELSE @]
                      db == ReplaceRow(rows, Updated(t, new, now))
                  IN  Outcome(db, get_todos_response(db,
                          Msg("Todo updated successfully", <<>>, 0), current_user))

\* the second update branch: the rename from analysis["todos"][0] to [1]
rename_todo(rows, analysis, current_user, now, commit_ok) ==
    LET given == IF Has(analysis, "todos") THEN analysis.todos ELSE <<>>
    IN  IF Len(given) < 2
        THEN Outcome(rows, HTTPException(400, Msg("Missing update information", <<>>, 0)))
        ELSE IF ~Has(given[1], "title") \/ ~Has(given[2], "title")
        THEN Outcome(rows, Fault("KeyError"))
        ELSE LET old_title == given[1].title
                 new_title == given[2].title
                 todo == find_matching_todo(rows, old_title, current_user)
             IN  IF todo = None THEN Outcome(rows, NotFound(old_title))
                 ELSE LET t == TheOne(todo)
                          Clash(r) == r.title = new_title /\ r.user_id = current_user /\ r.id # t.id
                      IN  IF SelectSeq(rows, Clash) # <<>>
                          THEN Outcome(rows, HTTPException(400,
                                   Msg("A todo with this title already exists", <<>>, 0)))
                          ELSE IF ~commit_ok THEN Outcome(rows, CommitFailed)
                          ELSE LET db == ReplaceRow(rows,
                                       Updated(t, [t EXCEPT !.title = new_title], now))
                               IN  Outcome(db, get_todos_response(db,
                                       Msg("Todo updated successfully", <<>>, 0), current_user))

\* analysis after the "action" not in analysis default
with_default_action(analysis, user_input) ==
    IF Has(analysis, "action") THEN analysis
    ELSE [action |-> "create",
          todo_info |-> [title |-> user_input, description |-> None, due_date |-> None,
                         priority |-> 1, category |-> None]] @@ analysis

\* the if / elif chain on analysis["action"]; the second test for "update" comes
\* after the first, as in the source
dispatch(rows, analysis, user_input, current_user, now, commit_ok) ==
    IF analysis.action = "create"
    THEN create_todos(rows, analysis, user_input, current_user, now, commit_ok)
    ELSE IF analysis.action \in {"mark_complete", "mark_incomplete"}
    THEN mark_todo(rows, analysis, user_input, current_user, now, commit_ok)
    ELSE IF analysis.action = "update"
    THEN update_todo(rows, analysis, current_user, now, commit_ok)
    ELSE IF analysis.action = "update"
    THEN rename_todo(rows, analysis, current_user, now, commit_ok)
    ELSE IF analysis.action \in {"query", "list_all"}
    THEN Outcome(rows, get_filtered_todos(rows,
             IF Has(analysis, "filters") THEN analysis.filters ELSE None,
             IF Has(analysis, "view_options") THEN analysis.view_options ELSE None,
             current_user))
    ELSE IF analysis.action = "delete"
    THEN delete_todo(rows, analysis, user_input, current_user, commit_ok)
    ELSE Outcome(rows, HTTPException(400, Msg("Invalid action", <<>>, 0)))

\* a slip: the message of the analysis is dropped
error_result_unknown(analysis) == Result(<<>>, None, Some("Unknown error occurred"))
\* the dict returned for an analysis whose action is "error"
error_result(analysis) ==
    Result(<<>>, None,
           Some(IF Has(analysis, "error") THEN analysis.error ELSE "Unknown error occurred"))

\* POST /process for current_user with the given utterance and the clock;
\* analysis is what TodoAnalyzer.analyze_input returned for the utterance,
\* commit_ok whether the store accepts the commit of this request
process_input(rows, user_input, analysis, current_user, now, commit_ok) ==
        IF DOMAIN analysis = {}
        THEN Outcome(rows, Result(<<>>, None,
                 Some("Failed to process your request. Please try again.")))
        ELSE IF Has(analysis, "action") /\ analysis.action = "error"
        THEN Outcome(rows, error_result(analysis))
        ELSE dispatch(rows, with_default_action(analysis, user_input),
                      user_input, current_user, now, commit_ok)

---------------------------------------------------------------------------
(* Bounds and inputs                                                        *)

\* most rows the table holds, and the largest id given out
MaxTodos == 2
MaxId == 2
\* readings of the clock (datetime.utcnow / datetime.now), in hours
Times == {1, 2}

T_BuyMilk == <<"B", "u", "y", " ", "M", "i", "l", "k">>
T_Milk == <<"M", "i", "l", "k">>
T_GetMilk == <<"G", "e", "t", " ", "M", "i", "l", "k">>
T_WalkDog == <<"W", "a", "l", "k", " ", "D", "o", "g">>

\* utterances
U_plain == <<"M", "i", "l", "k">>
U_mark == <<"m", "a", "r", "k", " ", "m", "i", "l", "k", " ", "a", "s", " ", "d", "o", "n", "e">>
U_delete == <<"d", "e", "l", "e", "t", "e", " ", "t", "a", "s", "k", " ", "m", "i", "l", "k">>
U_two == <<"M", "i", "l", "k", ",", " ", "G", "e", "t", " ", "M", "i", "l", "k">>
Utterances == {U_plain, U_mark, U_delete, U_two}

\* drafts as the oracle writes them in "todos"
D_plain == [title |-> Lower(T_Milk), description |-> None, due_date |-> None,
            priority |-> 1, category |-> None]
D_due == [title |-> T_GetMilk, description |-> Some(Descr(T_GetMilk, None)),
          due_date |-> Some(DateStr("sql", 5)), priority |-> 3, category |-> None]
D_short == [title |-> T_Milk]
D_isodue == [title |-> T_Milk, due_date |-> Some(DateStr("iso", 5)), priority |-> 2]
D_untitled == [description |-> None, priority |-> 2]
Ref(title) == [title |-> title]
RefTitles == {T_BuyMilk, T_Milk, T_GetMilk, T_WalkDog}

\* JSON objects the oracle returns
CreateObjects ==
    {[action |-> "create", todos |-> <<d>>] : d \in {D_plain, D_due, D_isodue}}
    \cup {[action |-> "create"]}
NoActionObjects ==
    {[todos |-> ds] : ds \in {<<>>, <<D_short, D_due>>, <<D_short, D_isodue>>,
                              <<D_untitled>>}}
    \cup {[todo_info |-> [title |-> T_Milk]]}
TargetObjects ==
    {[action |-> a, todos |-> <<Ref(t)>>] :
        a \in {"mark_complete", "mark_incomplete", "delete"}, t \in RefTitles}
    \cup {[action |-> "mark_complete", todo_info |-> Ref(T_Milk)],
          [action |-> "delete", todo_info |-> [priority |-> 1]],
          [action |-> "delete", todos |-> <<D_untitled>>]}
UpdateObjects ==
    {[action |-> "update", todos |-> <<Ref(old), Ref(new)>>] :
        old \in {T_Milk}, new \in {T_Milk, T_GetMilk}}
    \cup {[action |-> "update", todos |-> <<Ref(T_Milk)>>]}
    \cup {[action |-> "update", todos |-> <<Ref(T_Milk), Ref(T_GetMilk)>>, todo_info |-> ti] :
            ti \in {[title |-> T_Milk, description |-> None,
                     due_date |-> Some(DateStr("date", 7)), priority |-> 2, category |-> None],
                    [title |-> T_GetMilk, user_id |-> 1, completed |-> TRUE],
                    [title |-> T_Milk, due_date |-> Some(DateStr("junk", 0))],
                    [title |-> T_Milk, due_date |-> Some(DateStr("empty", 0))],
                    [title |-> T_Milk, category |-> Some(T_Milk)],
                    [title |-> T_WalkDog],
                    [priority |-> 3]}}
OtherObjects ==
    {[action |-> "query"],
     [action |-> "list_all", filters |-> Some([completed |-> TRUE]),
      view_options |-> Some([sort_by |-> "priority", sort_order |-> "desc"])],
     [action |-> "error", error |-> "Something went wrong"],
     [action |-> "error"],
     [action |-> "archive"]}
Objects == CreateObjects \cup NoActionObjects \cup TargetObjects \cup UpdateObjects
           \cup OtherObjects

\* (utterance, oracle outcome) pairs of the requests
Requests ==
    {<<u, [kind |-> "text"]>> : u \in {U_plain, U_mark, U_delete}}
    \cup {<<U_plain, [kind |-> k]>> : k \in {"fail", "nonobject"}}
    \cup {<<U_plain, [kind |-> "object", obj |-> o]>> : o \in Objects}
    \cup {<<U_two, [kind |-> "object", obj |-> o]>> : o \in CreateObjects}
    \cup {<<U_mark, [kind |-> "object", obj |-> [action |-> a]]>> :
            a \in {"mark_complete", "mark_incomplete"}}
    \cup {<<U_delete, [kind |-> "object", obj |-> [action |-> "delete"]]>>}

\* TodoAnalyzer.analyze_input(todo_request.user_input) for every request and clock
Analyses == [r \in Requests, now \in Times |-> analyze_input(r[1], r[2], now)]

---------------------------------------------------------------------------
(* The application: requests are handled one at a time, each in one         *)
(* transaction                                                              *)

NoRequest == [op |-> "none"]
NoResponse == [kind |-> "none"]
\* every user's own table empty
NoSolo == [u \in Users |-> <<>>]

\* the database file is removed and the tables are created empty at start-up
Init ==
    /\ todos = <<>>
    /\ pre = <<>>
    /\ req = NoRequest
    /\ resp = NoResponse
    /\ view = NoResponse
    /\ a_in = NoRequest
    /\ a_out = NoResponse
    /\ m_in = NoRequest
    /\ m_out = None
    /\ solo = NoSolo

\* POST /process: the handler runs from its first line to its return or raise
Process ==
    /\ req = NoRequest
    /\ \E u \in Users, r \in Requests, now \in Times, commit_ok \in BOOLEAN :
        LET analysis == Analyses[r, now]
            out == process_input(todos, r[1], analysis, u, now, commit_ok)
        IN  \* a rejected commit is a case only where the handler reaches db.commit()
            /\ ~commit_ok => out # process_input(todos, r[1], analysis, u, now, TRUE)
            /\ Len(out.db) <= MaxTodos
            /\ \A i \in 1..Len(out.db) : out.db[i].id <= MaxId
            /\ pre' = todos
            /\ todos' = out.db
            /\ req' = [op |-> "process", user |-> u, user_input |-> r[1], oracle |-> r[2],
                       analysis |-> analysis, commit_ok |-> commit_ok]
            /\ resp' = out.resp
            /\ view' = NoResponse
            /\ UNCHANGED <<a_in, a_out, m_in, m_out, solo>>

\* GET /todos
GetTodos ==
    /\ \E u \in Users :
        view' = [get_filtered_todos(todos, None, None, u) EXCEPT !.kind = "list"]
                    @@ [user |-> u]
    /\ UNCHANGED <<todos, pre, req, resp, a_in, a_out, m_in, m_out, solo>>

\* the response has gone out and the request's session is closed
Respond ==
    /\ req # NoRequest
    /\ pre' = todos
    /\ req' = NoRequest
    /\ resp' = NoResponse
    /\ view' = NoResponse
    /\ UNCHANGED <<todos, a_in, a_out, m_in, m_out, solo>>

Next == Process \/ GetTodos \/ Respond

Spec == Init /\ [][Next]_vars

---------------------------------------------------------------------------
(* find_matching_todo on its own: every table of short titles, every        *)
(* reference                                                                *)

\* longest stored title, longest reference, most rows
MaxTitleLen == 2
MaxRefLen == 3
MaxMatchRows == 2
MatchAlphabet == {"a", "B", " ", "_"}
StringsUpTo(n) == UNION {[1..k -> MatchAlphabet] : k \in 0..n}
MatchTitles == StringsUpTo(MaxTitleLen) \ {<<>>}
MatchRefs == StringsUpTo(MaxRefLen)
MatchTables ==
    UNION {[1..n -> MatchTitles \X Users] : n \in 0..MaxMatchRows}

InitMatch ==
    /\ \E tab \in MatchTables :
          todos = [i \in 1..Len(tab) |-> Todo(i, tab[i][1], None, tab[i][2], 1, None, 1)]
    /\ pre = <<>>
    /\ req = NoRequest
    /\ resp = NoResponse
    /\ view = NoResponse
    /\ a_in = NoRequest
    /\ a_out = NoResponse
    /\ m_in = NoRequest
    /\ m_out = None
    /\ solo = NoSolo

Find ==
    /\ m_in = NoRequest
    /\ \E title \in MatchRefs, user_id \in Users :
          /\ m_in' = [op |-> "find", title |-> title, user_id |-> user_id]
          /\ m_out' = find_matching_todo(todos, title, user_id)
    /\ UNCHANGED <<todos, pre, req, resp, view, a_in, a_out, solo>>

NextMatch == Find

SpecMatch == InitMatch /\ [][NextMatch]_vars

---------------------------------------------------------------------------
(* analyze_input on its own: utterances of a few words, every kind of       *)
(* oracle outcome                                                           *)

\* most words in an utterance
MaxWords == 3
Vocabulary ==
    {<<"d", "e", "l", "e", "t", "e">>,
     <<"c", "a", "n", "c", "e", "l">>,
     <<"f", "i", "n", "i", "s", "h", "e", "d">>,
     <<"d", "o", "n", "e">>,
     <<"t", "a", "s", "k">>,
     <<"n", "e", "e", "d", " ", "t", "o">>,
     <<"M", "i", "l", "k">>,
     <<"e", "g", "g", "s", ",">>,
     <<"2", "h", "r", "s">>,
     <<"!">>}
RECURSIVE Phrases(_)
Phrases(n) ==
    IF n = 0 THEN {<<>>}
    ELSE Phrases(n - 1)
         \cup {IF p = <<>> THEN w ELSE p \o <<" ">> \o w : p \in Phrases(n - 1) \ {<<>>}, w \in Vocabulary}
         \cup Vocabulary
AnalyzeUtterances == Phrases(MaxWords) \ {<<>>}
AnalyzeOracles ==
    {[kind |-> k] : k \in {"fail", "text", "nonobject"}}
    \cup {[kind |-> "object", obj |-> o] :
            o \in {[action |-> "create", todos |-> <<D_plain>>],
                   [action |-> "create", todos |-> <<D_due>>],
                   [action |-> "create", todos |-> <<[priority |-> 2]>>],
                   [action |-> "create"],
                   [action |-> "delete", todos |-> <<Ref(T_Milk)>>],
                   [ui_action |-> "refresh_list"]}}

InitAnalyze ==
    /\ todos = <<>>
    /\ pre = <<>>
    /\ req = NoRequest
    /\ resp = NoResponse
    /\ view = NoResponse
    /\ a_in \in [user_input : AnalyzeUtterances, oracle : AnalyzeOracles, now : Times]
    /\ a_out = NoResponse
    /\ m_in = NoRequest
    /\ m_out = None
    /\ solo = NoSolo

Analyze ==
    /\ a_out = NoResponse
    /\ a_out' = analyze_input(a_in.user_input, a_in.oracle, a_in.now)
    /\ UNCHANGED <<todos, pre, req, resp, view, a_in, m_in, m_out, solo>>

NextAnalyze == Analyze

SpecAnalyze == InitAnalyze /\ [][NextAnalyze]_vars

---------------------------------------------------------------------------
(* Two owners: the shared table next to each owner's table of a run of that *)
(* owner's requests alone, fed the same requests in the same order          *)

InitOwners ==
    /\ todos = <<>>
    /\ pre = <<>>
    /\ req = NoRequest
    /\ resp = NoResponse
    /\ view = NoResponse
    /\ a_in = NoRequest
    /\ a_out = NoResponse
    /\ m_in = NoRequest
    /\ m_out = None
    /\ solo = NoSolo

\* the requests of the two owners: the heuristic's create of "Milk", and the
\* oracle's query, its completion and deletion of "Milk" and its updates (of
\* those with a todo_info, the ones that set a priority or an owner)
OwnerRequests ==
    {r \in Requests :
        /\ r[1] = U_plain
        /\ \/ r[2].kind = "text"
           \/ /\ r[2].kind = "object" /\ Has(r[2].obj, "action")
              /\ \/ r[2].obj.action = "query"
                 \/ Has(r[2].obj, "todos") /\ r[2].obj.todos = <<Ref(T_Milk)>>
                 \/ /\ r[2].obj.action = "update"
                    /\ Has(r[2].obj, "todo_info") =>
                          \/ Has(r[2].obj.todo_info, "priority")
                          \/ Has(r[2].obj.todo_info, "user_id")}

\* POST /process of user u, handled on the shared table and on u's own
ProcessOwners ==
    \E u \in Users, r \in OwnerRequests, now \in Times :
        LET analysis == Analyses[r, now]
            out == process_input(todos, r[1], analysis, u, now, TRUE)
            own == process_input(solo[u], r[1], analysis, u, now, TRUE)
        IN  /\ Len(out.db) <= MaxTodos
            /\ \A i \in 1..Len(out.db) : out.db[i].id <= MaxId
            /\ \A i \in 1..Len(own.db) : own.db[i].id <= MaxId
            /\ pre' = todos
            /\ todos' = out.db
            /\ solo' = [solo EXCEPT ![u] = own.db]
            /\ req' = [op |-> "process", user |-> u, user_input |-> r[1], oracle |-> r[2],
                       analysis |-> analysis, commit_ok |-> TRUE]
            /\ resp' = out.resp
            /\ UNCHANGED <<view, a_in, a_out, m_in, m_out>>

NextOwners == ProcessOwners

SpecOwners == InitOwners /\ [][NextOwners]_vars

---------------------------------------------------------------------------
(* Properties                                                               *)

\* a POST /process request has been handled and its response is in resp
Handled == req # NoRequest
\* the action process_input dispatches on
Action == IF Has(req.analysis, "action") THEN req.analysis.action ELSE "create"
IsMutation == Action \in {"create", "mark_complete", "mark_incomplete", "update", "delete"}
Succeeded == resp.kind = "result" /\ resp.error = None
Ids(rows) == {rows[i].id : i \in 1..Len(rows)}
Row(rows, id) == CHOOSE r \in {rows[i] : i \in 1..Len(rows)} : r.id = id
RowSet(rows) == {rows[i] : i \in 1..Len(rows)}
OwnedBy(rows, u) == {r \in RowSet(rows) : r.user_id = u}
\* rows2 is rows1 but for the row of id `id`
SameBut(rows1, rows2, id) ==
    /\ Len(rows1) = Len(rows2)
    /\ \A i \in 1..Len(rows1) :
          rows1[i].id = rows2[i].id /\ (rows1[i].id # id => rows1[i] = rows2[i])

\* C1: a handled request of user u leaves every row of another user as it was,
\* adds no row for another user, and changes no row's owner: every row
\* inserted, modified or deleted has user_id = u.
C1_OwnerScoped ==
    Handled =>
        /\ \A r \in RowSet(pre) : r.user_id # req.user => r \in RowSet(todos)
        /\ \A r \in RowSet(todos) : r.user_id # req.user => r \in RowSet(pre)
        /\ \A r \in RowSet(pre) : r.id \in Ids(todos) => Row(todos, r.id).user_id = r.user_id

\* the old and new title of an update analysis that carries two drafts
HasRenamePair ==
    /\ Handled /\ Action = "update"
    /\ Has(req.analysis, "todos") /\ Len(req.analysis.todos) >= 2
    /\ Has(req.analysis.todos[1], "title") /\ Has(req.analysis.todos[2], "title")
RenameCollides ==
    /\ HasRenamePair
    /\ LET a == find_matching_todo(pre, req.analysis.todos[1].title, req.user)
       IN  /\ a # None
           /\ \E b \in OwnedBy(pre, req.user) :
                 b.id # TheOne(a).id /\ b.title = req.analysis.todos[2].title

\* C2: an update with two drafts whose old title resolves to a row A of the
\* user while another row B of the user has exactly the new title ends with
\* the title-conflict error, and the table is as it was.
C2_RenameCollision ==
    RenameCollides =>
        /\ resp = HTTPException(400, Msg("A todo with this title already exists", <<>>, 0))
        /\ todos = pre

\* C3: a delete whose resolved title matches no row of the user ends with the
\* not-found error naming that title and leaves the table as it was; a delete
\* whose title matches row m removes m and nothing else (the store accepting
\* the commit).
C3_Delete ==
    (Handled /\ Action = "delete") =>
        LET title == todo_title(req.analysis, req.user_input, deletion_words_to_remove)
        IN  title # None =>
            LET m == find_matching_todo(pre, TheOne(title), req.user)
            IN  /\ m = None =>
                     /\ resp.kind = "http" /\ resp.status_code = 404
                     /\ resp.detail.title = TheOne(title)
                     /\ todos = pre /\ Len(todos) = Len(pre)
                /\ (m # None /\ req.commit_ok) =>
                     /\ Succeeded
                     /\ RowSet(todos) = RowSet(pre) \ {TheOne(m)}
                     /\ Len(todos) = Len(pre) - 1
                     /\ TheOne(m).user_id = req.user

\* C3 witness: a delete of a title that matches none of the user's rows, the
\* user owning a row
C3_Witness ==
    /\ Handled /\ Action = "delete"
    /\ resp.kind = "http" /\ resp.status_code = 404
    /\ OwnedBy(pre, req.user) # {}
    /\ Len(pre) = 2

\* the row a completion request resolves to, or None
Marked ==
    LET title == todo_title(req.analysis, req.user_input, completion_words_to_remove)
    IN  IF title = None THEN None ELSE find_matching_todo(pre, TheOne(title), req.user)
IsMark == Handled /\ Action \in {"mark_complete", "mark_incomplete"}
MarkResolved ==
    IsMark /\ todo_title(req.analysis, req.user_input, completion_words_to_remove) # None

\* C4 as claimed: the matched row gets completed = (action is mark_complete),
\* every other field of it and every other row is unchanged; with no match the
\* not-found error names the title and nothing changes.  (The store accepts
\* the commit.)
C4_ToggleAllFields ==
    MarkResolved =>
        IF Marked = None
        THEN /\ resp = NotFound(TheOne(todo_title(req.analysis, req.user_input,
                                                   completion_words_to_remove)))
             /\ todos = pre
        ELSE LET t == TheOne(Marked)
             IN  req.commit_ok =>
                 /\ SameBut(pre, todos, t.id)
                 /\ Row(todos, t.id) = [t EXCEPT !.completed = (Action = "mark_complete")]

\* C4 as amended: the same, but updated_at of the matched row is left out of
\* the frame (the store refreshes it when the flag changes).
C4_Toggle ==
    MarkResolved =>
        IF Marked = None
        THEN /\ resp = NotFound(TheOne(todo_title(req.analysis, req.user_input,
                                                   completion_words_to_remove)))
             /\ todos = pre
        ELSE LET t == TheOne(Marked)
             IN  req.commit_ok =>
                 /\ SameBut(pre, todos, t.id)
                 /\ t.user_id = req.user
                 /\ Row(todos, t.id) = [t EXCEPT !.completed = (Action = "mark_complete"),
                                                 !.updated_at = Row(todos, t.id).updated_at]
                 /\ Succeeded

\* C4 witness: a mark_complete that matched a row that was not completed, with
\* another row in the table
C4_Witness ==
    /\ IsMark /\ Action = "mark_complete" /\ Marked # None
    /\ ~TheOne(Marked).completed
    /\ Len(pre) = 2
    /\ Row(todos, TheOne(Marked).id).completed

\* the drafts a create request inserts when the analysis carries some
Drafts == req.analysis.todos
\* a draft with a title and a due date that is null or in the declared format
WellFormed(d) ==
    /\ Has(d, "title")
    /\ Has(d, "due_date") => (d.due_date = None \/ TheOne(d.due_date).fmt = "sql")
CreatesDrafts ==
    /\ Handled /\ Action = "create" /\ req.commit_ok
    /\ Has(req.analysis, "todos") /\ Len(req.analysis.todos) >= 1
    /\ \A i \in 1..Len(Drafts) : WellFormed(Drafts[i])
\* the instant a draft's due date writes, or None
DraftDue(d) == IF Has(d, "due_date") /\ d.due_date # None THEN Some(TheOne(d.due_date).t) ELSE None
\* the instant a listed due_date writes, or None
ListedDue(e) == IF e.due_date = None THEN None ELSE Some(TheOne(e.due_date).t)
\* a list of todo dicts holds an entry for row id with the draft's title,
\* priority and due date
ListsDraft(list, id, d) ==
    \E i \in 1..Len(list) :
        /\ list[i].id = id
        /\ list[i].title = d.title
        /\ list[i].priority = (IF Has(d, "priority") THEN d.priority ELSE 1)
        /\ ListedDue(list[i]) = DraftDue(d)

\* C5: a create whose analysis carries n >= 1 drafts (each with a title and a
\* due date that is null or in the declared format), the store accepting the
\* commit, appends exactly n rows,
\* the k-th with user_id = the user, completed = false and the title, priority
\* and due date of the k-th draft; the rows that were there are unchanged; the
\* list returned, and a GET /todos of the same user that follows, hold every
\* new row with that title, priority and due date.
C5_Create ==
    CreatesDrafts =>
        LET n == Len(Drafts)
        IN  /\ Succeeded
            /\ Len(todos) = Len(pre) + n
            /\ \A i \in 1..Len(pre) : todos[i] = pre[i]
            /\ \A k \in 1..n :
                  LET row == todos[Len(pre) + k]
                      d == Drafts[k]
                  IN  /\ row.user_id = req.user
                      /\ row.completed = FALSE
                      /\ row.title = d.title
                      /\ row.priority = (IF Has(d, "priority") THEN d.priority ELSE 1)
                      /\ row.due_date = DraftDue(d)
                      /\ row.id \notin Ids(pre)
                      /\ ListsDraft(resp.todos, row.id, d)
                      /\ (view.kind = "list" /\ view.user = req.user)
                            => ListsDraft(view.todos, row.id, d)

\* C5 witness: a create of one draft with a due date into a table that holds
\* a row, followed by the user's GET /todos
C5_Witness ==
    /\ CreatesDrafts /\ Has(req.analysis, "action")
    /\ Len(pre) = 1 /\ Len(todos) = 2
    /\ todos[2].due_date # None
    /\ view.kind = "list" /\ view.user = req.user

\* C6: when the analysis has action = error, the table is as it was and the
\* response is a dict with an empty todo list, no message, and as its error
\* the error text of the analysis.
C6_ErrorAnalysis ==
    (Handled /\ Has(req.analysis, "action") /\ req.analysis.action = "error") =>
        /\ todos = pre
        /\ resp.kind = "result"
        /\ resp.todos = <<>>
        /\ resp.message = None
        /\ resp.error # None
        /\ Has(req.analysis, "error") => resp.error = Some(req.analysis.error)

\* C6 witness: an error analysis with a message, handled over a table with rows
C6_Witness ==
    /\ Handled /\ Action = "error" /\ Has(req.analysis, "error")
    /\ Len(pre) > 0
    /\ resp.kind = "result"

\* the rows user u may see: all rows for an admin, else the rows u owns
Visible(rows, u) == IF is_admin(u) THEN RowSet(rows) ELSE OwnedBy(rows, u)
\* list holds exactly one entry per row of the set, with the row's fields
ListsExactly(list, rowset) ==
    /\ Len(list) = Cardinality(rowset)
    /\ \A r \in rowset :
          \E i \in 1..Len(list) :
              /\ list[i].id = r.id /\ list[i].title = r.title
              /\ list[i].completed = r.completed /\ list[i].priority = r.priority
              /\ ListedDue(list[i]) = r.due_date

\* C7: a query or list_all never changes the table and never fails: it
\* returns exactly the rows of the user when the user is no admin, and all
\* rows of all users when the user is an admin.  GET /todos lists the same.
C7_ReadVisibility ==
    /\ (Handled /\ Action \in {"query", "list_all"}) =>
          /\ todos = pre
          /\ Succeeded
          /\ ListsExactly(resp.todos, Visible(pre, req.user))
          /\ ~is_admin(req.user) =>
                \A i \in 1..Len(resp.todos) :
                    Row(pre, resp.todos[i].id).user_id = req.user
    /\ view.kind = "list" => ListsExactly(view.todos, Visible(todos, view.user))

\* C7 witness: a query of a user who is no admin over a table that holds a
\* row of that user and a row of another
C7_Witness ==
    /\ Handled /\ Action \in {"query", "list_all"}
    /\ ~is_admin(req.user)
    /\ OwnedBy(pre, req.user) # {}
    /\ OwnedBy(pre, req.user) # RowSet(pre)
    /\ resp.kind = "result"

PolicyMatch(rows, ref, owner) ==
    LET Sub(t) == t.user_id = owner /\ Contains(Lower(t.title), Lower(ref))
        Tok(t) == /\ t.user_id = owner
                  /\ \E i \in 1..Len(Split(Lower(ref))) :
                        Contains(Lower(t.title), Split(Lower(ref))[i])
    IN  IF SelectSeq(rows, Sub) # <<>> THEN Some(SelectSeq(rows, Sub)[1])
        ELSE IF SelectSeq(rows, Tok) # <<>> THEN Some(SelectSeq(rows, Tok)[1])
        ELSE None

\* C9: find(owner, ref) returns the row the two-stage policy names, and never
\* a row of another owner.
C9_MatcherPolicy ==
    m_in # NoRequest =>
        /\ m_out = PolicyMatch(todos, m_in.title, m_in.user_id)
        /\ m_out # None => TheOne(m_out).user_id = m_in.user_id

\* the action the keyword rule of the claim gives an utterance
KeywordAction(u) ==
    IF \E i \in 1..Len(delete_words) : Contains(Lower(u), delete_words[i]) THEN "delete"
    ELSE IF \E i \in 1..Len(complete_words) : Contains(Lower(u), complete_words[i])
    THEN "mark_complete"
    ELSE "create"
\* the one-word entries of action_words
SingleActionWords == {action_words[i] : i \in {j \in 1..Len(action_words) : ~InSeq(" ", action_words[j])}}
\* a_out is the heuristic's analysis of utterance u: the keyword action and one
\* draft whose title is u stripped of the action words and capitalized
IsHeuristicResult(out, u) ==
    /\ Has(out, "action") /\ out.action = KeywordAction(u)
    /\ Has(out, "todos") /\ Len(out.todos) = 1
    /\ LET title == out.todos[1].title
       IN  /\ title # <<>>
           /\ title = Capitalize(basic_cleanup(u))
           /\ title = Capitalize(title)
           /\ \A w \in SingleActionWords : SubWord(Lower(title), w) = Lower(title)
Analyzed == a_out # NoResponse
\* oracle text that is not a JSON object of the declared schema
NotOfSchema ==
    \/ a_in.oracle.kind \in {"text", "nonobject"}
    \/ a_in.oracle.kind = "object" /\ ~Has(a_in.oracle.obj, "action")

C11_OracleFailHeuristic ==
    (Analyzed /\ a_in.oracle.kind = "fail") =>
        /\ a_out = fallback_extraction(a_in.user_input)
        /\ basic_cleanup(a_in.user_input) # <<>> => a_out.action # "error"

\* a mutation in which an exception arose after a write attempt: a create that
\* failed, or a completion, update or deletion whose setattr loop or commit
\* raised (a KeyError on reading the title comes before any write)
WriteFailed ==
    /\ Handled /\ IsMutation
    /\ \/ Action = "create" /\ resp = CreateFailed
       \/ /\ Action # "create" /\ resp.kind = "fault"
          /\ resp.exc \in {"OperationalError", "ValueError", "AttributeError", "StatementError"}

\* C12: a mutation in which an exception arose after a write attempt ends with
\* a structured failure (a dict with an error text and no todos) and leaves the
\* table exactly as it was before the request.
C12_NoPartialState ==
    WriteFailed =>
        /\ resp.kind = "result" /\ resp.error # None /\ resp.todos = <<>>
        /\ todos = pre

\* the row an update's old title resolves to when no other row of the user
\* holds the new title, or None
Renamed ==
    IF ~HasRenamePair THEN None
    ELSE LET a == find_matching_todo(pre, req.analysis.todos[1].title, req.user)
         IN  IF a # None /\ \A b \in OwnedBy(pre, req.user) :
                               b.id # TheOne(a).id => b.title # req.analysis.todos[2].title
             THEN a ELSE None

\* C13: an update with two drafts whose old title resolves to row t of the user,
\* no other row of the user holding the new title, leaves t with the new title,
\* its other fields (but for updated_at) and every other row as they were; an
\* update with fewer than two drafts ends with the missing-information error
\* and changes no row.
C13_Rename ==
    /\ (Renamed # None /\ req.commit_ok) =>
          LET t == TheOne(Renamed)
          IN  /\ SameBut(pre, todos, t.id)
              /\ Row(todos, t.id) = [t EXCEPT !.title = req.analysis.todos[2].title,
                                              !.updated_at = Row(todos, t.id).updated_at]
    /\ (Handled /\ Action = "update"
          /\ (Has(req.analysis, "todos") => Len(req.analysis.todos) < 2)) =>
          /\ resp = HTTPException(400, Msg("Missing update information", <<>>, 0))
          /\ todos = pre

\* whether row r satisfies every filter of f the model's requests carry
Satisfies(r, f) ==
    /\ Has(f, "completed") => r.completed = f.completed
    /\ Has(f, "priority") => r.priority = f.priority
\* whether a list of todo dicts is ordered by priority as view_options v asks
OrderedPer(list, v) ==
    (Has(v, "sort_by") /\ v.sort_by = "priority") =>
        \A i, j \in 1..Len(list) :
            i < j => IF Has(v, "sort_order") /\ v.sort_order = "desc"
                     THEN list[i].priority >= list[j].priority
                     ELSE list[i].priority <= list[j].priority

\* C14: a query or list_all that carries filters returns exactly the visible
\* rows that satisfy every filter, in the order its view_options ask for.
C14_QueryFiltered ==
    (/\ Handled /\ Action \in {"query", "list_all"}
     /\ Has(req.analysis, "filters") /\ req.analysis.filters # None) =>
        /\ ListsExactly(resp.todos,
               {r \in Visible(pre, req.user) : Satisfies(r, TheOne(req.analysis.filters))})
        /\ (Has(req.analysis, "view_options") /\ req.analysis.view_options # None) =>
               OrderedPer(resp.todos, TheOne(req.analysis.view_options))

\* a row without its id (ids are given out by the table, across users)
Task(r) == [f \in DOMAIN r \ {"id"} |-> r[f]]

\* C15: after any interleaving of the two users' requests, the tasks each user
\* owns in the shared table are, field by field, the tasks of that user's own
\* run; and a request of one user leaves the rows of the other as they were.
C15_OwnersIndependent ==
    /\ \A u \in Users :
          {Task(r) : r \in OwnedBy(todos, u)} = {Task(r) : r \in RowSet(solo[u])}
    /\ Handled => \A u \in Users \ {req.user} : OwnedBy(todos, u) = OwnedBy(pre, u)

=============================================================================
